---- MODULE Spec2Model ----
(***************************************************************************)
(* Chat / support-messaging layer of the marketplace backend:              *)
(*   - the message store and the ChatService operations over it            *)
(*     (app/services/chat_service.py),                                     *)
(*   - the HTTP handlers of app/api/chat.py that route a send,             *)
(*   - the WebSocket ConnectionManager (app/websocket/connection_manager)  *)
(*     and the WebSocket endpoint, interleaved with a send request.        *)
(*                                                                         *)
(* Spec        : ChatService calls on the message store, each committed in *)
(*               its own transaction (get_db commits after the handler).   *)
(* SpecApi     : POST /chat/messages with its role routing, each request   *)
(*               run to completion; no WebSocket client is connected, so   *)
(*               the push of a send has no target.                         *)
(* SpecRead    : POST /chat/messages and                                   *)
(*               GET /chat/conversations/{partner_id}/messages, each       *)
(*               request run to completion.                                *)
(* SpecOrder   : OrderService.update_status, two requests interleaved at   *)
(*               the awaits between the read of the order and the flush.   *)
(* SpecAccess  : get_order_chat applied to order directories and           *)
(*               requesters drawn from bounded sets.                       *)
(* SpecRt      : WebSocket handlers and one send request at a time,        *)
(*               interleaved at the awaits of the code.                    *)
(***************************************************************************)
EXTENDS Integers, Sequences, FiniteSets, TLC

VARIABLES
    messages,            \* committed rows of table "messages"
    nextId,              \* next primary key the store hands out
    clock,               \* last value datetime.utcnow() returned
    is_active,           \* users.is_active, per user id
    orders,              \* table "orders": id -> [user_id, item_owners, status]
    last,                \* the last ChatService call and what it returned
    view,                \* the last get_order_chat call and what it returned
    active_connections,  \* ConnectionManager.active_connections
    connection_users,    \* ConnectionManager.connection_users
    ws,                  \* per WebSocket: where its endpoint coroutine is
    req,                 \* the POST /chat/messages request in flight (SpecRt);
                         \* the update_status calls in flight (SpecOrder)
    pushed               \* <<connection, message id>> events put on a socket

vars == <<messages, nextId, clock, is_active, orders, last, view,
          active_connections, connection_users, ws, req, pushed>>

storeVars == <<messages, nextId, clock, is_active, orders, last, view>>
rtVars == <<active_connections, connection_users, ws, req, pushed>>

----------------------------------------------------------------------------
(* Bounds                                                                  *)

\* at most this many messages are ever inserted
MaxMsgs == 2

----------------------------------------------------------------------------
(* Directories                                                             *)

\* Python None of an Optional[int] column or argument
NoneId == -1

\* `if x:` on an Optional[int]: None and 0 are both false
Falsy(x) == x = NoneId \/ x = 0

\* rows of table "users" (tests/conftest.py creates one user per role)
UserIds == {1, 2, 3, 4}

UserRole == {"user", "seller", "admin", "support"}

role == [u \in UserIds |->
            CASE u = 1 -> "user"
              [] u = 2 -> "seller"
              [] u = 3 -> "admin"
              [] u = 4 -> "support"]

\* a receiver id no user row has
ReceiverInputs == UserIds \cup {9}

\* the users whose conversations Spec follows, and their receivers
ChatUsers == {1, 2, 3}

ChatReceivers == ChatUsers \cup {9}

\* WebSocket objects, and the user ids clients put in /chat/ws/{user_id}
Conns == {"c1", "c2"}

WsUserIds == {0, 1, 2}

\* callers and receivers of the sends that race with the sockets
RtCallers == {1, 3}

RtReceivers == {1, 2, 9}

\* order_id of those sends: absent, 0, and an id no order row has
RtOrders == {NoneId, 0, 8}

OrderIds == {1}

\* an order id no order row has
OrderInputs == {NoneId} \cup OrderIds \cup {8}

Texts == {"hello"}

DefaultOrders ==
    [o \in OrderIds |-> [user_id |-> 1, item_owners |-> {2}, status |-> "pending"]]

----------------------------------------------------------------------------
(* Message rows                                                            *)

\* Message(...) with is_read defaulting to True
Message_read_on_creation(id, sender_id, receiver_id, text, order_id, item_id, now) ==
    [id |-> id, sender_id |-> sender_id, receiver_id |-> receiver_id,
     order_id |-> order_id, item_id |-> item_id, text |-> text,
     is_read |-> TRUE, is_resolved |-> FALSE, created_at |-> now]

\* Message(sender_id, receiver_id, text, order_id, item_id) with the column
\* defaults of the model: is_read = False, is_resolved = False,
\* created_at = datetime.utcnow()
Message(id, sender_id, receiver_id, text, order_id, item_id, now) ==
    [id |-> id, sender_id |-> sender_id, receiver_id |-> receiver_id,
     order_id |-> order_id, item_id |-> item_id, text |-> text,
     is_read |-> FALSE, is_resolved |-> FALSE, created_at |-> now]

\* no row: scalar_one_or_none() returned None
NoMessage == Message(NoneId, NoneId, NoneId, "", NoneId, NoneId, 0)

\* or_(and_(sender == user1, receiver == user2),
\*     and_(sender == user2, receiver == user1))
PairMatch(m, user1_id, user2_id) ==
    \/ (m.sender_id = user1_id /\ m.receiver_id = user2_id)
    \/ (m.sender_id = user2_id /\ m.receiver_id = user1_id)

\* select(User).where(role == SUPPORT, is_active == True).limit(1)
\*   .scalar_one_or_none(): the rows the query may return (no ORDER BY)
SupportLookup(act) ==
    LET rows == {u \in UserIds : role[u] = "support" /\ act[u]}
    IN  IF rows = {} THEN {NoneId} ELSE rows

\* the substitution applied whatever the receiver's role
EffectiveSender_any_receiver(caller, receiver_id, support_user) ==
    IF role[caller] = "admin"
    THEN IF support_user # NoneId THEN support_user ELSE caller
    ELSE caller

\* api/chat.py send_message, lines 78-90: the sender_id handed to the service
EffectiveSender(caller, receiver_id, support_user) ==
    IF role[caller] = "admin"
    THEN IF receiver_id \in UserIds /\ role[receiver_id] = "user"
         THEN IF support_user # NoneId THEN support_user ELSE caller
         ELSE caller
    ELSE caller

\* ChatService.send_message: NotFound checks, then the inserted row
send_message(sender_id, receiver_id, text, order_id, item_id, id, now, ords) ==
    IF receiver_id \notin UserIds
    THEN [err |-> "NotFound", rows |-> {}]
    ELSE IF ~Falsy(order_id) /\ order_id \notin DOMAIN ords
    THEN [err |-> "NotFound", rows |-> {}]
    ELSE [err |-> "ok",
          rows |-> {Message(id, sender_id, receiver_id, text, order_id, item_id, now)}]

\* _get_unread_count without the is_read filter
get_unread_count_any(store, user_id, partner_id) ==
    Cardinality({m \in store : /\ m.sender_id = partner_id
                               /\ m.receiver_id = user_id})

\* ChatService._get_unread_count
get_unread_count(store, user_id, partner_id) ==
    Cardinality({m \in store : /\ m.sender_id = partner_id
                               /\ m.receiver_id = user_id
                               /\ m.is_read = FALSE})

\* mark_as_read without the receiver filter
mark_as_read_any_receiver(store, message_ids, user_id) ==
    LET sel == {m \in store : m.id \in message_ids}
    IN  [store |-> {IF m \in sel THEN [m EXCEPT !.is_read = TRUE] ELSE m : m \in store},
         count |-> Cardinality(sel)]

\* mark_as_read selecting only the rows still unread
mark_as_read_unread_only(store, message_ids, user_id) ==
    LET sel == {m \in store : /\ m.id \in message_ids
                              /\ m.receiver_id = user_id
                              /\ m.is_read = FALSE}
    IN  [store |-> {IF m \in sel THEN [m EXCEPT !.is_read = TRUE] ELSE m : m \in store},
         count |-> Cardinality(sel)]

\* ChatService.mark_as_read: the rows selected, flagged, and counted
mark_as_read(store, message_ids, user_id) ==
    LET sel == {m \in store : m.id \in message_ids /\ m.receiver_id = user_id}
    IN  [store |-> {IF m \in sel THEN [m EXCEPT !.is_read = TRUE] ELSE m : m \in store},
         count |-> Cardinality(sel)]

\* resolve_conversation without the is_resolved = False filter
resolve_conversation_all(store, user1_id, user2_id) ==
    LET sel == {m \in store : PairMatch(m, user1_id, user2_id)}
    IN  [store |-> {IF m \in sel THEN [m EXCEPT !.is_resolved = TRUE] ELSE m : m \in store},
         count |-> Cardinality(sel)]

\* resolve_conversation that also marks the messages read
resolve_conversation_marks_read(store, user1_id, user2_id) ==
    LET sel == {m \in store : PairMatch(m, user1_id, user2_id) /\ m.is_resolved = FALSE}
    IN  [store |-> {IF m \in sel
                    THEN [m EXCEPT !.is_resolved = TRUE, !.is_read = TRUE]
                    ELSE m : m \in store},
         count |-> Cardinality(sel)]

\* ChatService.resolve_conversation: UPDATE ... WHERE pair AND is_resolved = False
resolve_conversation(store, user1_id, user2_id) ==
    LET sel == {m \in store : PairMatch(m, user1_id, user2_id) /\ m.is_resolved = FALSE}
    IN  [store |-> {IF m \in sel THEN [m EXCEPT !.is_resolved = TRUE] ELSE m : m \in store},
         count |-> Cardinality(sel)]

\* delete_conversation matching one direction only
delete_conversation_one_way(store, user1_id, user2_id) ==
    LET sel == {m \in store : m.sender_id = user1_id /\ m.receiver_id = user2_id}
    IN  [store |-> store \ sel, count |-> Cardinality(sel)]

\* delete_conversation matching every message user1 sent or received
delete_conversation_of_user(store, user1_id, user2_id) ==
    LET sel == {m \in store : m.sender_id = user1_id \/ m.receiver_id = user1_id}
    IN  [store |-> store \ sel, count |-> Cardinality(sel)]

\* ChatService.delete_conversation: DELETE ... WHERE pair
delete_conversation(store, user1_id, user2_id) ==
    LET sel == {m \in store : PairMatch(m, user1_id, user2_id)}
    IN  [store |-> store \ sel, count |-> Cardinality(sel)]

----------------------------------------------------------------------------
(* Queries                                                                 *)

Min(a, b) == IF a <= b THEN a ELSE b

\* the enumerations of a finite set, each element once
Orderings(S) ==
    IF S = {} THEN {<<>>}
    ELSE {s \in [1..Cardinality(S) -> S] : \A i, j \in DOMAIN s : i # j => s[i] # s[j]}

\* ORDER BY created_at DESC: rows of S newest first; rows of equal created_at
\* come in whatever order the database picks
OrderByCreatedDesc(S) ==
    {s \in Orderings(S) :
        \A i, j \in DOMAIN s : i < j => s[i].created_at >= s[j].created_at}

\* .offset(skip).limit(limit), and the list slice [skip:skip + limit]
Page(s, skip, limit) == SubSeq(s, skip + 1, Min(skip + limit, Len(s)))

\* list.reverse()
Reverse(s) == [i \in 1..Len(s) |-> s[Len(s) + 1 - i]]

\* ChatService.get_conversation: the results the call may return
get_conversation(store, user1_id, user2_id, order_id, skip, limit) ==
    LET pair == {m \in store : PairMatch(m, user1_id, user2_id)}
        rows == IF ~Falsy(order_id)
                THEN {m \in pair : m.order_id = order_id}
                ELSE pair
        total == IF ~Falsy(order_id)
                 THEN Cardinality({m \in store : /\ PairMatch(m, user1_id, user2_id)
                                                 /\ m.order_id = order_id})
                 ELSE Cardinality(pair)
    IN  {[messages |-> Reverse(Page(s, skip, limit)), total |-> total] :
            s \in OrderByCreatedDesc(rows)}

MaxCreated(S) == CHOOSE t \in {m.created_at : m \in S} :
                    \A m \in S : m.created_at <= t

\* partner_times built from the sent messages alone
partner_times_sent_only(store, user_id) ==
    LET sent == {m \in store : m.sender_id = user_id}
    IN  [p \in {m.receiver_id : m \in sent} |->
            MaxCreated({m \in sent : m.receiver_id = p})]

\* ChatService.get_user_conversations, lines 178-210: partner -> time of the
\* newest message exchanged with the partner
partner_times(store, user_id) ==
    LET sent == {m \in store : m.sender_id = user_id}
        received == {m \in store : m.receiver_id = user_id}
        sent_partners == {m.receiver_id : m \in sent}
        received_partners == {m.sender_id : m \in received}
        sent_time(p) == MaxCreated({m \in sent : m.receiver_id = p})
        received_time(p) == MaxCreated({m \in received : m.sender_id = p})
    IN  [p \in sent_partners \cup received_partners |->
            IF p \in sent_partners /\ p \in received_partners
            THEN IF sent_time(p) >= received_time(p)
                 THEN sent_time(p) ELSE received_time(p)
            ELSE IF p \in sent_partners THEN sent_time(p)
            ELSE received_time(p)]

\* ChatService.get_user_conversations, lines 222-234: the rows the query
\* ORDER BY created_at DESC LIMIT 1 may return for one partner
last_message_rows(store, user_id, partner_id) ==
    LET pair == {m \in store : PairMatch(m, user_id, partner_id)}
    IN  {m \in pair : \A n \in pair : n.created_at <= m.created_at}

\* ChatService.get_user_conversations: the results the call may return
get_user_conversations(store, user_id, skip, limit) ==
    LET times == partner_times(store, user_id)
        sorted_partners ==
            {s \in Orderings(DOMAIN times) :
                \A i, j \in DOMAIN s : i < j => times[s[i]] >= times[s[j]]}
        entries(pg) ==
            {[i \in DOMAIN pg |->
                 [partner |-> pg[i],
                  last_message |-> f[i],
                  unread_count |-> get_unread_count(store, user_id, pg[i])]] :
               f \in {g \in [DOMAIN pg -> store] :
                        \A i \in DOMAIN pg :
                            g[i] \in last_message_rows(store, user_id, pg[i])}}
    IN  UNION {{[conversations |-> c, total |-> Cardinality(DOMAIN times)] :
                   c \in entries(Page(s, skip, limit))} :
               s \in sorted_partners}

\* support_user_times without the is_resolved filter
support_user_times_with_resolved(store, support_user_id) ==
    LET sent == {m \in store : m.receiver_id = support_user_id}
        received == {m \in store : m.sender_id = support_user_id}
        sent_users == {m.sender_id : m \in sent}
        received_users == {m.receiver_id : m \in received}
        sent_time(u) == MaxCreated({m \in sent : m.sender_id = u})
        received_time(u) == MaxCreated({m \in received : m.receiver_id = u})
    IN  [u \in sent_users \cup received_users |->
            IF u \in sent_users /\ u \in received_users
            THEN IF sent_time(u) >= received_time(u)
                 THEN sent_time(u) ELSE received_time(u)
            ELSE IF u \in sent_users THEN sent_time(u)
            ELSE received_time(u)]

\* get_support_conversations, lines 368-410: user -> time of the newest
\* unresolved message exchanged with the support user
support_user_times(store, support_user_id) ==
    LET sent == {m \in store : m.receiver_id = support_user_id /\ m.is_resolved = FALSE}
        received == {m \in store : m.sender_id = support_user_id /\ m.is_resolved = FALSE}
        sent_users == {m.sender_id : m \in sent}
        received_users == {m.receiver_id : m \in received}
        sent_time(u) == MaxCreated({m \in sent : m.sender_id = u})
        received_time(u) == MaxCreated({m \in received : m.receiver_id = u})
    IN  [u \in sent_users \cup received_users |->
            IF u \in sent_users /\ u \in received_users
            THEN IF sent_time(u) >= received_time(u)
                 THEN sent_time(u) ELSE received_time(u)
            ELSE IF u \in sent_users THEN sent_time(u)
            ELSE received_time(u)]

\* get_support_conversations, lines 430-446: what the query for the newest
\* unresolved message of the pair may return (None when there is none)
support_last_message(store, support_user_id, user_id) ==
    LET pair == {m \in store : /\ PairMatch(m, user_id, support_user_id)
                               /\ m.is_resolved = FALSE}
    IN  IF pair = {} THEN {NoMessage}
        ELSE {m \in pair : \A n \in pair : n.created_at <= m.created_at}

\* ChatService.get_support_conversations: the results the call may return
get_support_conversations(store, support_user_id, skip, limit) ==
    LET user_times == support_user_times(store, support_user_id)
        sorted_users ==
            {s \in Orderings(DOMAIN user_times) :
                \A i, j \in DOMAIN s : i < j => user_times[s[i]] >= user_times[s[j]]}
        entries(pg) ==
            {[i \in DOMAIN pg |->
                 [user |-> pg[i],
                  last_message |-> f[i],
                  unread_count |-> get_unread_count(store, support_user_id, pg[i])]] :
               f \in {g \in [DOMAIN pg -> store \cup {NoMessage}] :
                        \A i \in DOMAIN pg :
                            g[i] \in support_last_message(store, support_user_id, pg[i])}}
    IN  UNION {{[conversations |-> c, total |-> Cardinality(DOMAIN user_times)] :
                   c \in entries(Page(s, skip, limit))} :
               s \in sorted_users}

\* ORDER BY created_at ASC
OrderByCreatedAsc(S) ==
    {s \in Orderings(S) :
        \A i, j \in DOMAIN s : i < j => s[i].created_at <= s[j].created_at}

\* the access check letting every SELLER in, whatever the order holds
has_access_any_seller(order, user_id, user_role) ==
    \/ order.user_id = user_id
    \/ user_role = "admin"
    \/ user_role = "support"
    \/ user_role = "seller"

\* ChatService.get_order_chat, lines 324-331
has_access(order, user_id, user_role) ==
    \/ order.user_id = user_id
    \/ user_role = "admin"
    \/ user_role = "support"
    \/ /\ user_role = "seller"
       /\ order.item_owners # {}
       /\ \E owner_id \in order.item_owners : owner_id = user_id

\* ChatService.get_order_chat: the results the call may return
get_order_chat(store, ords, order_id, user_id, user_role) ==
    IF order_id \notin DOMAIN ords
    THEN {[err |-> "NotFound", messages |-> <<>>]}
    ELSE IF ~has_access(ords[order_id], user_id, user_role)
    THEN {[err |-> "Authorization", messages |-> <<>>]}
    ELSE {[err |-> "ok", messages |-> s] :
             s \in OrderByCreatedAsc({m \in store : m.order_id = order_id})}

----------------------------------------------------------------------------
(* ConnectionManager                                                       *)

EmptyMap == [k \in {} |-> 0]

\* del d[k]
Without(d, k) == [x \in DOMAIN d \ {k} |-> d[x]]

\* connect that registers the socket in the user's set only
connect_without_reverse_map(ac, cu, websocket, user_id) ==
    LET ac1 == IF user_id \notin DOMAIN ac THEN (user_id :> {}) @@ ac ELSE ac
    IN  [active_connections |-> [ac1 EXCEPT ![user_id] = @ \cup {websocket}],
         connection_users |-> cu]

\* ConnectionManager.connect, lines 34-38 (after the accept)
connect(ac, cu, websocket, user_id) ==
    LET ac1 == IF user_id \notin DOMAIN ac THEN (user_id :> {}) @@ ac ELSE ac
    IN  [active_connections |-> [ac1 EXCEPT ![user_id] = @ \cup {websocket}],
         connection_users |-> (websocket :> user_id) @@ cu]

\* disconnect that discards the connection but keeps the user's emptied set
disconnect_keeps_empty_set(ac, cu, websocket) ==
    IF websocket \notin DOMAIN cu \/ cu[websocket] = 0
    THEN [active_connections |-> ac, connection_users |-> cu]
    ELSE LET user_id == cu[websocket]
         IN  [active_connections |->
                 IF user_id \in DOMAIN ac
                 THEN [ac EXCEPT ![user_id] = @ \ {websocket}]
                 ELSE ac,
              connection_users |-> Without(cu, websocket)]

\* ConnectionManager.disconnect; `if user_id:` is false for None and for 0
disconnect(ac, cu, websocket) ==
    IF websocket \notin DOMAIN cu \/ cu[websocket] = 0
    THEN [active_connections |-> ac, connection_users |-> cu]
    ELSE LET user_id == cu[websocket]
             rest == ac[user_id] \ {websocket}
         IN  [active_connections |->
                 IF user_id \in DOMAIN ac
                 THEN IF rest = {} THEN Without(ac, user_id)
                      ELSE [ac EXCEPT ![user_id] = rest]
                 ELSE ac,
              connection_users |-> Without(cu, websocket)]

\* send_personal_message, lines 77-78: for conn in disconnected: disconnect(conn)
RECURSIVE disconnect_all(_, _, _)
disconnect_all(ac, cu, conns) ==
    IF conns = {} THEN [active_connections |-> ac, connection_users |-> cu]
    ELSE LET c == CHOOSE x \in conns : TRUE
             d == disconnect(ac, cu, c)
         IN  disconnect_all(d.active_connections, d.connection_users, conns \ {c})

\* ConnectionManager.is_connected
is_connected(ac, user_id) ==
    user_id \in DOMAIN ac /\ Cardinality(ac[user_id]) > 0

\* ConnectionManager.get_connected_users
get_connected_users(ac) == DOMAIN ac

----------------------------------------------------------------------------
(* Initial state                                                           *)

NoCall == [op |-> "none", a |-> NoneId, ret |-> 0, err |-> "ok"]

NoView == [op |-> "none", order_id |-> NoneId, user_id |-> NoneId, user_role |-> "user",
           err |-> "ok", ids |-> <<>>]

\* no request in flight
NoReq == [pc |-> "idle", msg |-> NoMessage, push |-> "none", err |-> "ok",
          si_used |-> 0, snap |-> {}, visited |-> {}, disconnected |-> {},
          dead |-> FALSE]

InitRt ==
    /\ active_connections = EmptyMap
    /\ connection_users = EmptyMap
    /\ ws = [c \in Conns |-> "new"]
    /\ req = NoReq
    /\ pushed = {}

InitStore ==
    /\ messages = {}
    /\ nextId = 1
    /\ clock = 0
    /\ orders = DefaultOrders
    /\ last = NoCall
    /\ view = NoView

Init ==
    /\ InitStore
    /\ is_active = [u \in UserIds |-> TRUE]
    /\ InitRt

\* datetime.utcnow() at the insert: not before the previous one, and equal to
\* it when two inserts fall into one tick of the clock
Now == IF nextId = 1 THEN {clock + 1} ELSE {clock, clock + 1}

----------------------------------------------------------------------------
(* ChatService calls, each committed (Spec)                                *)

\* ChatService.send_message(sender_id, receiver_id, text, order_id), committed,
\* or rolled back when it raises NotFound
SendMessage(sender_id, receiver_id, order_id, now) ==
    /\ nextId <= MaxMsgs
    /\ \E text \in Texts :
         LET r == send_message(sender_id, receiver_id, text, order_id, NoneId,
                               nextId, now, orders)
         IN  /\ messages' = messages \cup r.rows
             /\ nextId' = IF r.err = "ok" THEN nextId + 1 ELSE nextId
             /\ clock' = IF r.err = "ok" THEN now ELSE clock
             /\ last' = [op |-> "send_message", a |-> sender_id,
                         ret |-> IF r.err = "ok" THEN nextId ELSE NoneId,
                         err |-> r.err]
    /\ UNCHANGED <<is_active, orders, view>>
    /\ UNCHANGED rtVars

\* ChatService.mark_as_read(message_ids, user_id), committed
MarkAsRead(message_ids, user_id) ==
    /\ LET r == mark_as_read(messages, message_ids, user_id)
       IN  /\ messages' = r.store
           /\ last' = [op |-> "mark_as_read", a |-> NoneId, ret |-> r.count,
                       err |-> "ok"]
    /\ UNCHANGED <<nextId, clock, is_active, orders, view>>
    /\ UNCHANGED rtVars

\* ChatService.resolve_conversation(user1_id, user2_id, _), committed
ResolveConversation(user1_id, user2_id) ==
    /\ LET r == resolve_conversation(messages, user1_id, user2_id)
       IN  /\ messages' = r.store
           /\ last' = [op |-> "resolve_conversation", a |-> NoneId, ret |-> r.count,
                       err |-> "ok"]
    /\ UNCHANGED <<nextId, clock, is_active, orders, view>>
    /\ UNCHANGED rtVars

\* ChatService.delete_conversation(user1_id, user2_id, _), committed
DeleteConversation(user1_id, user2_id) ==
    /\ LET r == delete_conversation(messages, user1_id, user2_id)
       IN  /\ messages' = r.store
           /\ last' = [op |-> "delete_conversation", a |-> NoneId, ret |-> r.count,
                       err |-> "ok"]
    /\ UNCHANGED <<nextId, clock, is_active, orders, view>>
    /\ UNCHANGED rtVars

Next ==
    \/ \E sender_id \in ChatUsers, receiver_id \in ChatReceivers,
          order_id \in OrderInputs, now \in Now :
         SendMessage(sender_id, receiver_id, order_id, now)
    \/ \E message_ids \in SUBSET (1..MaxMsgs), user_id \in ChatUsers :
         MarkAsRead(message_ids, user_id)
    \/ \E user1_id \in ChatUsers, user2_id \in ChatUsers :
         ResolveConversation(user1_id, user2_id)
    \/ \E user1_id \in ChatUsers, user2_id \in ChatUsers :
         DeleteConversation(user1_id, user2_id)

Spec == Init /\ [][Next]_vars

----------------------------------------------------------------------------
(* HTTP requests run to completion (SpecApi)                               *)

InitApi ==
    /\ InitStore
    /\ is_active \in [UserIds -> BOOLEAN]
    /\ \A u \in UserIds : role[u] # "support" => is_active[u]
    /\ InitRt

\* POST /chat/messages by `caller` while the receiver has no connection:
\* routing, ChatService.send_message, push to nobody, commit (or rollback on
\* NotFound)
ApiSendMessage(caller, receiver_id, order_id, now) ==
    /\ nextId <= MaxMsgs
    /\ is_active[caller]
    /\ receiver_id \notin DOMAIN active_connections
    /\ \E support_user \in SupportLookup(is_active), text \in Texts :
         LET sender_id == EffectiveSender(caller, receiver_id, support_user)
             r == send_message(sender_id, receiver_id, text, order_id, NoneId,
                               nextId, now, orders)
         IN  /\ messages' = messages \cup r.rows
             /\ nextId' = IF r.err = "ok" THEN nextId + 1 ELSE nextId
             /\ clock' = IF r.err = "ok" THEN now ELSE clock
             /\ last' = [op |-> "api_send_message", a |-> caller,
                         ret |-> IF r.err = "ok" THEN nextId ELSE NoneId,
                         err |-> r.err]
    /\ UNCHANGED <<is_active, orders, view>>
    /\ UNCHANGED rtVars

\* UserService.update(user_id, is_active=value) on a support account
UpdateUserActive(user_id, value) ==
    /\ role[user_id] = "support"
    /\ is_active[user_id] # value
    /\ is_active' = [is_active EXCEPT ![user_id] = value]
    /\ last' = [op |-> "update_user", a |-> user_id, ret |-> 0, err |-> "ok"]
    /\ UNCHANGED <<messages, nextId, clock, orders, view>>
    /\ UNCHANGED rtVars

\* the page and limit query parameters of a thread read: a page that covers
\* the thread, and the second page of one row
PageInputs == {<<1, MaxMsgs + 1>>, <<2, 1>>}

\* get_conversation_messages with the substitution restricted to partners of
\* role USER, as in send_message
ThreadUser1_user_partner_only(caller, partner_id, support_user) ==
    IF role[caller] = "admin" /\ partner_id \in UserIds /\ role[partner_id] = "user"
    THEN IF support_user # NoneId THEN support_user ELSE caller
    ELSE caller

\* api/chat.py get_conversation_messages, lines 224-240: the user1_id handed
\* to the service
ThreadUser1(caller, partner_id, support_user) ==
    IF role[caller] \in {"admin", "support"}
    THEN IF role[caller] = "admin"
         THEN IF support_user # NoneId THEN support_user ELSE caller
         ELSE caller
    ELSE caller

\* (total + limit - 1) // limit
PageCount(total, limit) == (total + limit - 1) \div limit

\* GET /chat/conversations/{partner_id}/messages by `caller`: the response is
\* kept in view
ApiGetConversationMessages(caller, partner_id, order_id, page, limit) ==
    /\ is_active[caller]
    /\ \E support_user \in SupportLookup(is_active) :
         LET skip == (page - 1) * limit
             user1_id == ThreadUser1(caller, partner_id, support_user)
         IN  \E r \in get_conversation(messages, user1_id, partner_id, order_id,
                                       skip, limit) :
                 view' = [op |-> "get_conversation_messages", user_id |-> caller,
                          partner_id |-> partner_id, order_id |-> order_id,
                          user_role |-> role[caller], err |-> "ok",
                          ids |-> [i \in DOMAIN r.messages |-> r.messages[i].id],
                          total |-> r.total, page |-> page,
                          pages |-> PageCount(r.total, limit)]
    /\ UNCHANGED <<messages, nextId, clock, is_active, orders, last>>
    /\ UNCHANGED rtVars

NextApi ==
    \/ \E caller \in UserIds, receiver_id \in ReceiverInputs,
          order_id \in OrderInputs, now \in Now :
         ApiSendMessage(caller, receiver_id, order_id, now)
    \/ \E user_id \in UserIds, value \in BOOLEAN :
         UpdateUserActive(user_id, value)

SpecApi == InitApi /\ [][NextApi]_vars

----------------------------------------------------------------------------
(* Sends and thread reads through the API (SpecRead)                       *)

\* sends without an order, each at a later time than the one before; reads of
\* the thread with an existing user, without order filter
NextRead ==
    \/ \E caller \in UserIds, receiver_id \in UserIds :
         ApiSendMessage(caller, receiver_id, NoneId, clock + 1)
    \/ \E user_id \in UserIds, value \in BOOLEAN :
         UpdateUserActive(user_id, value)
    \/ \E caller \in UserIds, partner_id \in UserIds, pg \in PageInputs :
         ApiGetConversationMessages(caller, partner_id, NoneId, pg[1], pg[2])

SpecRead == InitApi /\ [][NextRead]_vars

----------------------------------------------------------------------------
(* OrderService.update_status, two requests at a time (SpecOrder)          *)

\* models.OrderStatus, as keyed in STATUS_TRANSITIONS
OrderStatus == {"pending", "paid", "shipped", "delivered", "cancelled", "returned"}

\* order_service.STATUS_TRANSITIONS
STATUS_TRANSITIONS ==
    [s \in OrderStatus |->
        CASE s = "pending" -> {"paid", "cancelled"}
          [] s = "paid" -> {"shipped", "cancelled", "returned"}
          [] s = "shipped" -> {"delivered", "cancelled"}
          [] s = "delivered" -> {"returned"}
          [] s = "cancelled" -> {}
          [] s = "returned" -> {}]

\* the requests that may be in flight together
CallIds == {"r1", "r2"}

\* callers of update_status: the owner of order 1, another user, an admin
OrderCallers == {1, 2, 3}

\* OrderService.update_status up to `order.status = new_status`: the error
\* raised, or "ok"
update_status_check(ords, order_id, new_status, user_id, user_role) ==
    IF order_id \notin DOMAIN ords THEN "NotFound"
    ELSE IF user_role # "admin" /\ ords[order_id].user_id # user_id
         THEN "Authorization"
    ELSE IF user_role = "admin"
         THEN IF new_status = ords[order_id].status THEN "Validation" ELSE "ok"
    ELSE IF new_status \notin STATUS_TRANSITIONS[ords[order_id].status]
         THEN "Validation"
    ELSE "ok"

\* no update_status call in flight
NoCalls == [c \in CallIds |->
               [pc |-> "idle", order_id |-> NoneId, user_id |-> NoneId,
                new_status |-> "pending", seen |-> "pending"]]

InitOrder ==
    /\ InitStore
    /\ is_active = [u \in UserIds |-> TRUE]
    /\ active_connections = EmptyMap
    /\ connection_users = EmptyMap
    /\ ws = [c \in Conns |-> "new"]
    /\ pushed = {}
    /\ req = NoCalls

\* request c: get_by_id and the checks; a raise ends the request (rollback),
\* otherwise the loaded order has its status assigned and awaits the flush
UpdateStatusLoad(c, order_id, new_status, user_id) ==
    /\ req[c].pc = "idle"
    /\ LET err == update_status_check(orders, order_id, new_status, user_id,
                                      role[user_id])
       IN  IF err = "ok"
           THEN /\ req' = [req EXCEPT ![c] =
                              [pc |-> "assigned", order_id |-> order_id,
                               user_id |-> user_id, new_status |-> new_status,
                               seen |-> orders[order_id].status]]
                /\ UNCHANGED last
           ELSE /\ last' = [op |-> "update_status", a |-> user_id,
                            ret |-> NoneId, err |-> err]
                /\ UNCHANGED req
    /\ UNCHANGED <<messages, nextId, clock, is_active, orders, view>>
    /\ UNCHANGED <<active_connections, connection_users, ws, pushed>>

\* request c: flush (UPDATE orders SET status = ... WHERE id = ...), reload,
\* return and the commit of get_db
UpdateStatusFlush(c) ==
    /\ req[c].pc = "assigned"
    /\ orders' = [orders EXCEPT ![req[c].order_id].status = req[c].new_status]
    /\ last' = [op |-> "update_status", a |-> req[c].user_id,
                ret |-> req[c].order_id, err |-> "ok"]
    /\ req' = [req EXCEPT ![c] = NoCalls[c]]
    /\ UNCHANGED <<messages, nextId, clock, is_active, view>>
    /\ UNCHANGED <<active_connections, connection_users, ws, pushed>>

NextOrder ==
    \/ \E c \in CallIds, order_id \in OrderIds \cup {8},
          new_status \in OrderStatus, user_id \in OrderCallers :
         UpdateStatusLoad(c, order_id, new_status, user_id)
    \/ \E c \in CallIds : UpdateStatusFlush(c)

SpecOrder == InitOrder /\ [][NextOrder]_vars

----------------------------------------------------------------------------
(* get_order_chat over drawn directories (SpecAccess)                      *)

\* rows the store may hold when an order thread is read
SampleRows ==
    {[Message(1, 1, 2, "hello", 1, NoneId, 1) EXCEPT !.is_read = TRUE],
     Message(2, 2, 1, "hello", 1, NoneId, 2),
     Message(3, 1, 3, "hello", NoneId, NoneId, 2)}

InitAccess ==
    /\ messages \in SUBSET SampleRows
    /\ nextId = Cardinality(SampleRows) + 1
    /\ clock = 2
    /\ is_active = [u \in UserIds |-> TRUE]
    /\ orders \in [OrderIds -> [user_id : {1, 2}, item_owners : SUBSET {2, 3}]]
    /\ last = NoCall
    /\ view = NoView
    /\ InitRt

\* GET /chat/orders/{order_id}/messages: ChatService.get_order_chat(order_id,
\* user_id, user_role)
GetOrderChat(order_id, user_id, user_role) ==
    /\ \E r \in get_order_chat(messages, orders, order_id, user_id, user_role) :
         view' = [op |-> "get_order_chat", order_id |-> order_id,
                  user_id |-> user_id, user_role |-> user_role,
                  err |-> r.err,
                  ids |-> [i \in DOMAIN r.messages |-> r.messages[i].id]]
    /\ UNCHANGED <<messages, nextId, clock, is_active, orders, last>>
    /\ UNCHANGED rtVars

NextAccess ==
    \E order_id \in OrderIds \cup {8}, user_id \in UserIds, user_role \in UserRole :
        GetOrderChat(order_id, user_id, user_role)

SpecAccess == InitAccess /\ [][NextAccess]_vars

----------------------------------------------------------------------------
(* WebSocket endpoints and a send request, interleaved (SpecRt)            *)

\* the set object the running iterator of send_personal_message walks: the
\* user's set, or the emptied set that disconnect removed from the dict
IterSet == IF req.dead THEN {} ELSE active_connections[req.msg.receiver_id]

\* what a disconnect does to the iterator of a push in progress: deleting the
\* user's key leaves the iterator on the emptied set
AfterDisconnect(r, ac) ==
    IF r.pc = "iter" /\ r.msg.receiver_id \notin DOMAIN ac
    THEN [r EXCEPT !.dead = TRUE]
    ELSE r

\* websocket_endpoint, line 32: manager.connect(websocket, user_id)
WsConnect(c, user_id) ==
    /\ ws[c] = "new"
    /\ LET d == connect(active_connections, connection_users, c, user_id)
       IN  /\ active_connections' = d.active_connections
           /\ connection_users' = d.connection_users
    /\ ws' = [ws EXCEPT ![c] = "open"]
    /\ UNCHANGED <<req, pushed>>
    /\ UNCHANGED storeVars

\* websocket_endpoint, lines 55-57: receive_text raises WebSocketDisconnect
WsClientDisconnect(c) ==
    /\ ws[c] = "open"
    /\ LET d == disconnect(active_connections, connection_users, c)
       IN  /\ active_connections' = d.active_connections
           /\ connection_users' = d.connection_users
           /\ req' = AfterDisconnect(req, d.active_connections)
    /\ ws' = [ws EXCEPT ![c] = "closed"]
    /\ UNCHANGED pushed
    /\ UNCHANGED storeVars

\* websocket_endpoint, line 38 or 41: the frame is not JSON (json.loads
\* raises), or is JSON but no object (.get raises); nothing catches it, the
\* coroutine ends and manager.disconnect is not called
WsBadFrame(c) ==
    /\ ws[c] = "open"
    /\ ws' = [ws EXCEPT ![c] = "crashed"]
    /\ UNCHANGED <<active_connections, connection_users, req, pushed>>
    /\ UNCHANGED storeVars

\* websocket_endpoint, lines 43-53: a "ping" or "message" frame whose reply
\* cannot be sent; send_json raises WebSocketDisconnect (caught) or another
\* exception (not caught), depending on the server stack
WsReplyFails(c, caught) ==
    /\ ws[c] = "open"
    /\ IF caught
       THEN LET d == disconnect(active_connections, connection_users, c)
            IN  /\ active_connections' = d.active_connections
                /\ connection_users' = d.connection_users
                /\ req' = AfterDisconnect(req, d.active_connections)
                /\ ws' = [ws EXCEPT ![c] = "closed"]
       ELSE /\ ws' = [ws EXCEPT ![c] = "crashed"]
            /\ UNCHANGED <<active_connections, connection_users, req>>
    /\ UNCHANGED pushed
    /\ UNCHANGED storeVars

\* websocket_endpoint, lines 36-53: a frame that is answered ("ping",
\* "message") or ignored; the registry is not touched
WsFrame(c) ==
    /\ ws[c] = "open"
    /\ UNCHANGED vars

\* db.flush() of a row whose order_id is set but has no order row: the INSERT
\* passes where foreign keys are not enforced (SQLite as configured) and
\* raises IntegrityError where they are (PostgreSQL)
FlushOutcomes(order_id, ords) ==
    IF order_id = NoneId \/ order_id \in DOMAIN ords
    THEN {"ok"}
    ELSE {"ok", "IntegrityError"}

\* send_message (api), lines 77-98: routing and ChatService.send_message; the
\* row is flushed, not committed; NotFound ends the request with a rollback
ReqPersist(caller, receiver_id, order_id, now) ==
    /\ req.pc \in {"idle", "done"}
    /\ nextId <= MaxMsgs
    /\ is_active[caller]
    /\ \E support_user \in SupportLookup(is_active), text \in Texts :
         LET sender_id == EffectiveSender(caller, receiver_id, support_user)
             r == send_message(sender_id, receiver_id, text, order_id, NoneId,
                               nextId, now, orders)
         IN  IF r.err = "ok"
             THEN \E flushed \in FlushOutcomes(order_id, orders) :
                  /\ req' = IF flushed = "ok"
                            THEN [NoReq EXCEPT !.pc = "flushed",
                                               !.msg = CHOOSE m \in r.rows : TRUE]
                            ELSE [NoReq EXCEPT !.pc = "done", !.err = flushed]
                  /\ nextId' = nextId + 1
                  /\ clock' = now
             ELSE /\ req' = [NoReq EXCEPT !.pc = "done", !.err = r.err]
                  /\ UNCHANGED <<nextId, clock>>
    /\ UNCHANGED <<messages, is_active, orders, last, view>>
    /\ UNCHANGED <<active_connections, connection_users, ws, pushed>>

\* connection.send_json(message) on c: a socket whose endpoint has ended is
\* closed and the send raises; on an open socket it succeeds or raises
SendOutcomes(c) == IF ws[c] = "open" THEN {TRUE, FALSE} ELSE {FALSE}

\* one pass of the loop body of send_personal_message, lines 69-74
Delivered(r, c, ok) ==
    [r EXCEPT !.visited = @ \cup {c},
              !.disconnected = IF ok THEN @ ELSE @ \cup {c}]

\* send_personal_message without the membership test of line 67: indexing
\* active_connections with a user that has no entry raises KeyError
ReqPushStart_without_membership_test ==
    /\ req.pc = "flushed"
    /\ IF req.msg.receiver_id \in DOMAIN active_connections
       THEN \E c \in active_connections[req.msg.receiver_id] : \E ok \in SendOutcomes(c) :
              /\ req' = Delivered([req EXCEPT
                                     !.pc = "iter", !.push = "running",
                                     !.snap = active_connections[req.msg.receiver_id],
                                     !.si_used = Cardinality(
                                         active_connections[req.msg.receiver_id])],
                                  c, ok)
              /\ pushed' = IF ok THEN pushed \cup {<<c, req.msg.id>>} ELSE pushed
       ELSE /\ req' = [req EXCEPT !.pc = "done", !.push = "raised", !.err = "KeyError"]
            /\ UNCHANGED pushed
    /\ UNCHANGED <<active_connections, connection_users, ws>>
    /\ UNCHANGED storeVars

\* send_personal_message, lines 67-71: the membership test, the iterator over
\* the user's set and its first element, up to the first await
ReqPushStart ==
    /\ req.pc = "flushed"
    /\ IF req.msg.receiver_id \in DOMAIN active_connections
       THEN \E c \in active_connections[req.msg.receiver_id] : \E ok \in SendOutcomes(c) :
              /\ req' = Delivered([req EXCEPT
                                     !.pc = "iter", !.push = "running",
                                     !.snap = active_connections[req.msg.receiver_id],
                                     !.si_used = Cardinality(
                                         active_connections[req.msg.receiver_id])],
                                  c, ok)
              /\ pushed' = IF ok THEN pushed \cup {<<c, req.msg.id>>} ELSE pushed
       ELSE /\ req' = [req EXCEPT !.pc = "respond", !.push = "returned"]
            /\ UNCHANGED pushed
    /\ UNCHANGED <<active_connections, connection_users, ws>>
    /\ UNCHANGED storeVars

\* send_personal_message, lines 69-78, resumed after an await: the set
\* iterator raises RuntimeError when the set changed size; else it yields a
\* further element or is exhausted, and the failed connections are cleaned up.
\* An element added while another was removed may or may not be yielded.
ReqPushNext ==
    /\ req.pc = "iter"
    /\ IF Cardinality(IterSet) # req.si_used
       THEN /\ req' = [req EXCEPT !.pc = "done", !.push = "raised",
                                  !.err = "RuntimeError"]
            /\ UNCHANGED <<active_connections, connection_users, pushed>>
       ELSE \/ \E c \in IterSet \ req.visited : \E ok \in SendOutcomes(c) :
                 /\ req' = Delivered(req, c, ok)
                 /\ pushed' = IF ok THEN pushed \cup {<<c, req.msg.id>>} ELSE pushed
                 /\ UNCHANGED <<active_connections, connection_users>>
            \/ /\ (IterSet \ req.visited) \cap req.snap = {}
               /\ LET d == disconnect_all(active_connections, connection_users,
                                          req.disconnected)
                  IN  /\ active_connections' = d.active_connections
                      /\ connection_users' = d.connection_users
               /\ req' = [req EXCEPT !.pc = "respond", !.push = "returned"]
               /\ UNCHANGED pushed
    /\ UNCHANGED ws
    /\ UNCHANGED storeVars

\* send_message (api), lines 115-128, then get_db, line 34: the response is
\* built and the session commits
ReqCommit ==
    /\ req.pc = "respond"
    /\ messages' = messages \cup {req.msg}
    /\ req' = [req EXCEPT !.pc = "done"]
    /\ UNCHANGED <<nextId, clock, is_active, orders, last, view>>
    /\ UNCHANGED <<active_connections, connection_users, ws, pushed>>

\* get_db, lines 34-37: the commit raises, the session rolls back
ReqCommitFails ==
    /\ req.pc = "respond"
    /\ req' = [req EXCEPT !.pc = "done", !.err = "CommitFailed"]
    /\ UNCHANGED storeVars
    /\ UNCHANGED <<active_connections, connection_users, ws, pushed>>

NextRt ==
    \/ \E c \in Conns, user_id \in WsUserIds : WsConnect(c, user_id)
    \/ \E c \in Conns : WsClientDisconnect(c)
    \/ \E c \in Conns : WsFrame(c)
    \/ \E c \in Conns : WsBadFrame(c)
    \/ \E c \in Conns, caught \in BOOLEAN : WsReplyFails(c, caught)
    \/ \E caller \in RtCallers, receiver_id \in RtReceivers,
          order_id \in RtOrders, now \in Now :
         ReqPersist(caller, receiver_id, order_id, now)
    \/ ReqPushStart
    \/ ReqPushNext
    \/ ReqCommit
    \/ ReqCommitFails

SpecRt == Init /\ [][NextRt]_vars

----------------------------------------------------------------------------
(* Properties                                                              *)

\* the messages between A and B: those whose {sender, receiver} is {A, B}
Between(store, A, B) == {m \in store : {m.sender_id, m.receiver_id} = {A, B}}

\* pages asked for: the first and a later one, of one row and of all rows
Skips == {0, 1}
Limits == {1, MaxMsgs + 1}

\* <<skip, limit>> of the thread pages asked for: the whole thread, and the
\* second row alone
ThreadPages == {<<0, MaxMsgs + 1>>, <<1, 1>>}

\* C7: in every result of list_conversations(A), the unread count of the entry
\* of partner B is the number of stored messages with sender B, receiver A and
\* is_read = false, and B has an entry on the full page whenever B sent A a
\* message.
UnreadCountMatchesStore ==
    \A A \in ChatUsers :
        /\ \A skip \in Skips, limit \in Limits :
             \A r \in get_user_conversations(messages, A, skip, limit) :
                \A i \in DOMAIN r.conversations :
                    r.conversations[i].unread_count =
                        Cardinality({m \in messages :
                                        /\ m.sender_id = r.conversations[i].partner
                                        /\ m.receiver_id = A
                                        /\ ~m.is_read})
        /\ \A B \in ChatUsers :
             (\E m \in messages : m.sender_id = B /\ m.receiver_id = A)
                => \A r \in get_user_conversations(messages, A, 0, MaxMsgs + 1) :
                      \E i \in DOMAIN r.conversations :
                          r.conversations[i].partner = B

\* B sent A two messages, A marked one of them read, the count reported is 1
UnreadCountWitness ==
    /\ last.op = "mark_as_read"
    /\ \E A, B \in ChatUsers :
         /\ A # B
         /\ Cardinality({m \in messages : m.sender_id = B /\ m.receiver_id = A}) = 2
         /\ Cardinality({m \in messages : /\ m.sender_id = B /\ m.receiver_id = A
                                          /\ m.is_read}) = 1
         /\ \E r \in get_user_conversations(messages, A, 0, 1) :
              /\ r.conversations[1].partner = B
              /\ r.conversations[1].unread_count = 1

ResolveCountsUnresolved ==
    [][\A A, B \in ChatUsers :
          ResolveConversation(A, B) =>
             /\ last'.ret = Cardinality({m \in Between(messages, A, B) :
                                            ~m.is_resolved})
             /\ resolve_conversation(messages', A, B).count = 0
             /\ \A m \in Between(messages', A, B) : m.is_resolved]_vars

\* a resolve that found an already-resolved and a not yet resolved message of
\* the pair
ResolveWitness ==
    /\ last.op = "resolve_conversation"
    /\ last.ret = 1
    /\ \E A, B \in ChatUsers :
         /\ Cardinality(Between(messages, A, B)) = 2
         /\ \A m \in Between(messages, A, B) : m.is_resolved

\* C10: after delete_conversation(A, B) every get_thread(A, B) and
\* get_thread(B, A), for any order filter and page, is empty with total 0, and
\* the count returned is the number of messages between A and B before the call.
DeleteEmptiesThread ==
    [][\A A, B \in ChatUsers :
          DeleteConversation(A, B) =>
             /\ last'.ret = Cardinality(Between(messages, A, B))
             /\ \A o \in {NoneId} \cup OrderIds, pg \in ThreadPages :
                   \A r \in get_conversation(messages', A, B, o, pg[1], pg[2])
                            \cup get_conversation(messages', B, A, o, pg[1], pg[2]) :
                       r.messages = <<>> /\ r.total = 0]_vars

\* a delete that removed messages of both directions
DeleteWitness ==
    /\ last.op = "delete_conversation"
    /\ last.ret = 2
    /\ messages = {}

\* C1: a message sent through POST /chat/messages by an ADMIN to a USER-role
\* receiver while an active SUPPORT user exists is persisted with an active
\* support user's id as sender_id, not the admin's; in every other case the
\* persisted sender_id is the caller's id.
AdminSendsAsSupport ==
    [][\A caller \in UserIds, receiver_id \in UserIds,
          order_id \in OrderInputs, now \in Now :
          (ApiSendMessage(caller, receiver_id, order_id, now) /\ last'.err = "ok") =>
             \E m \in messages' \ messages :
                /\ m.id = last'.ret
                /\ m.receiver_id = receiver_id
                /\ IF /\ role[caller] = "admin"
                      /\ role[receiver_id] = "user"
                      /\ \E u \in UserIds : role[u] = "support" /\ is_active[u]
                   THEN /\ role[m.sender_id] = "support"
                        /\ is_active[m.sender_id]
                        /\ m.sender_id # caller
                   ELSE m.sender_id = caller]_vars

\* the admin has just sent to the USER-role user, and the row carries the
\* support user's id
AdminSendsAsSupportWitness ==
    /\ last.op = "api_send_message"
    /\ last.err = "ok"
    /\ role[last.a] = "admin"
    /\ \E m \in messages :
         /\ m.id = last.ret
         /\ role[m.receiver_id] = "user"
         /\ role[m.sender_id] = "support"

\* C6: get_order_thread on an existing order returns exactly the order's
\* messages when the requester is the order's buyer, or ADMIN, or SUPPORT, or a
\* SELLER owning an item of the order; otherwise it raises Authorization and
\* returns nothing; on a missing order it raises NotFound whatever the role.
OrderThreadAccess ==
    view.op = "get_order_chat" =>
        IF view.order_id \notin DOMAIN orders
        THEN view.err = "NotFound" /\ view.ids = <<>>
        ELSE IF \/ orders[view.order_id].user_id = view.user_id
                \/ view.user_role \in {"admin", "support"}
                \/ /\ view.user_role = "seller"
                   /\ view.user_id \in orders[view.order_id].item_owners
        THEN /\ view.err = "ok"
             /\ {view.ids[i] : i \in DOMAIN view.ids} =
                   {m.id : m \in {n \in messages : n.order_id = view.order_id}}
             /\ \A i, j \in DOMAIN view.ids : i # j => view.ids[i] # view.ids[j]
        ELSE view.err = "Authorization" /\ view.ids = <<>>

\* a seller who is not the buyer and owns an item of the order read its thread
OrderThreadSellerWitness ==
    /\ view.op = "get_order_chat"
    /\ view.err = "ok"
    /\ view.user_role = "seller"
    /\ view.order_id \in DOMAIN orders
    /\ orders[view.order_id].user_id # view.user_id
    /\ Len(view.ids) = 2

----------------------------------------------------------------------------
(* Realtime push and the registry (SpecRt)                                 *)

\* the connections the registry holds for a user
Registered(user_id) ==
    IF user_id \in DOMAIN active_connections THEN active_connections[user_id] ELSE {}

\* both maps describe the same set of (connection, user) pairs, and no user
\* is kept with an empty set
RegistryConsistent ==
    /\ \A u \in DOMAIN active_connections :
         /\ active_connections[u] # {}
         /\ \A c \in active_connections[u] :
              c \in DOMAIN connection_users /\ connection_users[c] = u
    /\ \A c \in DOMAIN connection_users :
         c \in Registered(connection_users[c])

\* C2: an event for a message is pushed to a connection only if the message
\* is durably persisted: every pushed event belongs to a stored message, or to
\* the request still in flight; once the request has ended the message must
\* be in the store, whatever step failed.
PushOnlyAfterPersist ==
    \A p \in pushed :
        \/ \E m \in messages : m.id = p[2]
        \/ req.pc \notin {"idle", "done"} /\ req.msg.id = p[2]

\* C3: whatever happens during the push (receiver offline, a send failing, the
\* receiver's connection set changing), a request that reached the push
\* returns the created message and the message is in the store.
PushFailureNeverSurfaces ==
    (req.pc = "done" /\ req.push # "none" /\ req.err # "CommitFailed")
        => (req.err = "ok" /\ req.msg \in messages)

\* C4: a push during which other handlers connect or disconnect connections
\* of the receiver never raises; when it returns, every connection that was
\* registered at its start and still is has been attempted; the registry maps
\* are consistent.
SendToleratesRegistryChange ==
    /\ req.push # "raised"
    /\ req.push = "returned" =>
         (req.snap \cap Registered(req.msg.receiver_id)) \subseteq req.visited
    /\ RegistryConsistent

\* C5: a connection whose handler has terminated (client disconnect, a frame
\* that cannot be decoded, a reply that cannot be sent) is not registered, so
\* a user reported online has a handler that is still running.
TerminatedHandlerUnregistered ==
    /\ \A c \in Conns :
         ws[c] \in {"closed", "crashed"} =>
             /\ c \notin DOMAIN connection_users
             /\ \A u \in DOMAIN active_connections : c \notin active_connections[u]
    /\ \A u \in WsUserIds :
         is_connected(active_connections, u) =>
             \E c \in active_connections[u] : ws[c] = "open"

----------------------------------------------------------------------------
(* Threads (Spec)                                                          *)

\* the rows a thread of A and B with order filter o is made of; a filter of
\* None or 0 is no filter (`if order_id:`)
ThreadRows(store, A, B, o) ==
    IF Falsy(o) THEN Between(store, A, B)
    ELSE {m \in Between(store, A, B) : m.order_id = o}

\* the rows of a returned page
Range(s) == {s[i] : i \in DOMAIN s}

\* get_thread(A, B) and get_thread(B, A) select the same rows and count the
\* same total: whatever one call may return the other may return too, and a
\* page that covers the conversation holds each of its messages once
ThreadSameRows ==
    \A A, B \in ChatUsers, o \in {NoneId} \cup OrderIds, pg \in ThreadPages :
        /\ get_conversation(messages, A, B, o, pg[1], pg[2])
              = get_conversation(messages, B, A, o, pg[1], pg[2])
        /\ \A r \in get_conversation(messages, A, B, o, pg[1], pg[2]) :
              /\ r.total = Cardinality(ThreadRows(messages, A, B, o))
              /\ pg[1] = 0 /\ pg[2] >= r.total =>
                    /\ Range(r.messages) = ThreadRows(messages, A, B, o)
                    /\ Len(r.messages) = r.total

\* C11: for any two users A and B, order filter and page, get_thread(A, B) and
\* get_thread(B, A) return the same messages in the same order and the same
\* total, and a page that covers the whole conversation holds every stored
\* message between A and B, whichever of the two sent it.
ThreadSymmetric ==
    \A A, B \in ChatUsers, o \in {NoneId} \cup OrderIds, pg \in ThreadPages :
      A # B =>
        \A r1 \in get_conversation(messages, A, B, o, pg[1], pg[2]),
           r2 \in get_conversation(messages, B, A, o, pg[1], pg[2]) :
            /\ r1.messages = r2.messages
            /\ r1.total = r2.total
            /\ pg[1] = 0 /\ pg[2] >= r1.total =>
                  Range(r1.messages) = ThreadRows(messages, A, B, o)

----------------------------------------------------------------------------
(* Fan-out of one event (SpecRt)                                           *)

\* the step that ends send_personal_message: it returns or it raises
PushEnds == ReqPushNext /\ req'.push # "running"

\* C12: when delivery to a connection c of user u failed during
\* send_to_user(event, u), the call does not raise, every other connection of
\* u got a delivery attempt, and when the call ends c is not registered (u is
\* offline if nothing else is registered) while the connections whose
\* delivery succeeded are left registered.
FailedConnectionRemoved ==
    [][(PushEnds /\ req.disconnected # {}) =>
          /\ req'.push = "returned"
          /\ req.snap \subseteq req.visited
          /\ \A c \in req.disconnected :
                /\ c \notin DOMAIN connection_users'
                /\ c \notin Registered(req.msg.receiver_id)'
          /\ Registered(req.msg.receiver_id)'
                = Registered(req.msg.receiver_id) \ req.disconnected
          /\ Registered(req.msg.receiver_id)' = {} =>
                ~is_connected(active_connections', req.msg.receiver_id)]_vars

\* the connections on which the event of the request in flight was put
Received(events, id) == {c \in Conns : <<c, id>> \in events}

\* C13: send_to_user(event, u) attempts delivery once to every connection
\* that was registered under u when it was called (the iterator yields each
\* once), and puts the event on no connection outside that set.
FanOutReachesEveryConnection ==
    [][PushEnds =>
          /\ req.visited = req.snap
          /\ Received(pushed', req.msg.id) \subseteq req.snap]_vars

\* C14: send_to_user to a user with no registered connection returns without
\* raising, puts the event on no connection and leaves the registry as it was.
OfflineSendIsNoOp ==
    [][(ReqPushStart /\ Registered(req.msg.receiver_id) = {}) =>
          /\ req'.push = "returned"
          /\ req'.err = "ok"
          /\ pushed' = pushed
          /\ active_connections' = active_connections
          /\ connection_users' = connection_users]_vars

\* a send to an offline user has returned while another user is connected
OfflineSendWitness ==
    /\ req.pc = "respond"
    /\ req.push = "returned"
    /\ req.snap = {}
    /\ Registered(req.msg.receiver_id) = {}
    /\ DOMAIN active_connections # {}
    /\ pushed = {}

----------------------------------------------------------------------------
(* The registry (SpecRt)                                                   *)

\* C15: for every user id the endpoint accepts, 0 included, disconnect(c) on
\* a connection c registered under u removes c from both maps, and u is
\* offline afterwards if c was its last connection; disconnect of a
\* connection that is not registered (any more) changes nothing.
DisconnectRemovesConnection ==
    [][\A c \in Conns :
          WsClientDisconnect(c) =>
             IF c \in DOMAIN connection_users
             THEN /\ c \notin DOMAIN connection_users'
                  /\ c \notin Registered(connection_users[c])'
                  /\ Registered(connection_users[c]) = {c} =>
                        ~is_connected(active_connections', connection_users[c])
             ELSE /\ active_connections' = active_connections
                  /\ connection_users' = connection_users]_vars

\* the connections registered under a user according to connection_users
OwnedBy(user_id) ==
    {c \in DOMAIN connection_users : connection_users[c] = user_id}

\* C16: in every reachable state is_online(u) is true exactly when at least
\* one connection is registered under u, and list_online_users() is exactly
\* the set of users that are online.
OnlineIffRegistered ==
    /\ \A u \in WsUserIds \cup RtReceivers :
         /\ is_connected(active_connections, u) <=> Registered(u) # {}
         /\ is_connected(active_connections, u) <=> OwnedBy(u) # {}
    /\ get_connected_users(active_connections)
          = {u \in WsUserIds \cup RtReceivers : is_connected(active_connections, u)}

\* one user's last connection was removed while another user is connected
OnlineWitness ==
    \E c, d \in Conns :
        /\ ws[c] = "closed" /\ c \notin DOMAIN connection_users
        /\ ws[d] = "open" /\ d \in DOMAIN connection_users
        /\ get_connected_users(active_connections) = {connection_users[d]}

----------------------------------------------------------------------------
(* Validation of a send (SpecRt)                                           *)

\* C17: a send whose receiver does not exist, or that gives an order_id no
\* order has, fails with NotFound; no message is stored for it and no event
\* is pushed.
SendRejectsUnknownReceiverOrOrder ==
    [][\A caller \in RtCallers, receiver_id \in RtReceivers,
          order_id \in RtOrders, now \in Now :
          (/\ ReqPersist(caller, receiver_id, order_id, now)
           /\ \/ receiver_id \notin UserIds
              \/ order_id # NoneId /\ order_id \notin DOMAIN orders) =>
             /\ req'.pc = "done"
             /\ req'.err = "NotFound"
             /\ messages' = messages
             /\ pushed' = pushed]_vars

----------------------------------------------------------------------------
(* Frame of mark_read (Spec)                                               *)

\* C18: mark_read(ids, r) sets is_read on the stored messages whose id is in
\* ids and whose receiver is r, and changes nothing else: every other message
\* (addressed to someone else, sent by r, or with an id outside ids) is kept
\* as it is, no other field changes, no message appears or disappears, and
\* ids that are foreign or unknown raise no error.
MarkReadFrame ==
    [][\A ids \in SUBSET (1..MaxMsgs), r \in ChatUsers :
          MarkAsRead(ids, r) =>
             /\ messages' = {IF m.id \in ids /\ m.receiver_id = r
                             THEN [m EXCEPT !.is_read = TRUE]
                             ELSE m : m \in messages}
             /\ \A m \in messages :
                   (m.id \notin ids \/ m.receiver_id # r) => m \in messages'
             /\ last'.err = "ok"]_vars

\* a mark_read that flagged one message and left an unread one alone
MarkReadFrameWitness ==
    /\ last.op = "mark_as_read"
    /\ last.ret = 1
    /\ \E m1, m2 \in messages :
         /\ m1.is_read /\ ~m2.is_read
         /\ m2.sender_id = m1.receiver_id

----------------------------------------------------------------------------
(* Admin send without a support account (SpecApi)                          *)

\* C19: when an ADMIN sends to a USER-role receiver and no active SUPPORT
\* user exists, the send does not end as an ordinary success that stored the
\* message under the admin's own id: it is rejected, or the result tells the
\* caller about the fallback.
AdminFallbackIsSignaled ==
    [][\A caller \in UserIds, receiver_id \in UserIds,
          order_id \in OrderInputs, now \in Now :
          (/\ ApiSendMessage(caller, receiver_id, order_id, now)
           /\ role[caller] = "admin"
           /\ role[receiver_id] = "user"
           /\ ~\E u \in UserIds : role[u] = "support" /\ is_active[u]) =>
             ~(/\ last'.err = "ok"
               /\ \E m \in messages' \ messages : m.sender_id = caller)]_vars

----------------------------------------------------------------------------
(* Support queue (Spec)                                                    *)

\* the users with at least one unresolved message exchanged with S
UnresolvedPartners(store, S) ==
    {U \in ChatUsers : \E m \in Between(store, U, S) : ~m.is_resolved}

\* every result of list_support_queue(S) on a page holding all entries has one
\* entry for each user with an unresolved message with S, no other entry, and
\* that number as total
QueueExact(store, S) ==
    \A r \in get_support_conversations(store, S, 0, Cardinality(ChatUsers)) :
        /\ {r.conversations[i].user : i \in DOMAIN r.conversations}
              = UnresolvedPartners(store, S)
        /\ Len(r.conversations) = r.total
        /\ r.total = Cardinality(UnresolvedPartners(store, S))

\* C20: U has an entry in list_support_queue(S) exactly when a stored message
\* between U and S is unresolved, and total is the number of such users; right
\* after resolve_conversation(S, U) the user U has no entry, and U has one
\* again right after a message between U and S is sent.  (Every store but the
\* empty initial one is the result of a step that changes the store.)
SupportQueueUnresolvedOnly ==
    [][/\ messages' # messages => \A S \in ChatUsers : QueueExact(messages', S)
       /\ \A S, U \in ChatUsers :
             ResolveConversation(S, U) =>
                \A r \in get_support_conversations(messages', S, 0,
                                                   Cardinality(ChatUsers)) :
                    \A i \in DOMAIN r.conversations : r.conversations[i].user # U
       /\ \A U \in ChatUsers, S \in ChatReceivers, o \in OrderInputs, now \in Now :
             (SendMessage(U, S, o, now) /\ last'.err = "ok") =>
                /\ \A r \in get_support_conversations(messages', S, 0,
                                                      Cardinality(ChatUsers)) :
                      \E i \in DOMAIN r.conversations : r.conversations[i].user = U
                /\ \A r \in get_support_conversations(messages', U, 0,
                                                      Cardinality(ChatUsers)) :
                      \E i \in DOMAIN r.conversations : r.conversations[i].user = S]_vars

\* a message was sent between two users whose earlier message is resolved:
\* the user is back in the queue
SupportQueueWitness ==
    /\ last.op = "send_message"
    /\ last.err = "ok"
    /\ \E S, U \in ChatUsers :
         /\ S # U
         /\ \E m1, m2 \in Between(messages, U, S) :
               m1.is_resolved /\ ~m2.is_resolved /\ m2.id = last.ret
         /\ U \in UnresolvedPartners(messages, S)

----------------------------------------------------------------------------
(* Flags of a message (Spec)                                               *)

\* the stored message with this id, as a set of at most one row
Row(store, id) == {m \in store : m.id = id}

\* C21: a message is created with is_read and is_resolved false; a flag that
\* is true stays true while the message exists; is_read becomes true only in
\* a mark_read by the message's receiver that names its id, and is_resolved
\* only in a resolve_conversation on the message's pair.
FlagsMonotonic ==
    [][/\ \A n \in messages' :
             Row(messages, n.id) = {} => ~n.is_read /\ ~n.is_resolved
       /\ \A m \in messages : \A n \in Row(messages', m.id) :
             /\ m.is_read => n.is_read
             /\ m.is_resolved => n.is_resolved
             /\ (~m.is_read /\ n.is_read) =>
                   \E ids \in SUBSET (1..MaxMsgs) :
                       m.id \in ids /\ MarkAsRead(ids, m.receiver_id)
             /\ (~m.is_resolved /\ n.is_resolved) =>
                   \/ ResolveConversation(m.sender_id, m.receiver_id)
                   \/ ResolveConversation(m.receiver_id, m.sender_id)]_vars

\* a message that has been read and resolved, next to a new one
FlagsWitness ==
    \E m, n \in messages :
        /\ m.is_read /\ m.is_resolved
        /\ ~n.is_read /\ ~n.is_resolved

----------------------------------------------------------------------------
(* Pages of a thread (Spec)                                                *)

\* the rows of s are listed as they were persisted (ids are assigned in the
\* order of insertion)
InPersistedOrder(s) == \A i, j \in DOMAIN s : i < j => s[i].id < s[j].id

\* C22: get_thread with skip s and limit l returns the messages ranked s+1..s+l
\* newest first, listed oldest first in the order persisted; total counts all
\* messages of the pair whatever s and l; consecutive pages are disjoint and
\* together hold every message of the thread exactly once.
ThreadPagesPartition ==
    \A A, B \in ChatUsers :
        \A r1 \in get_conversation(messages, A, B, NoneId, 0, 1),
           r2 \in get_conversation(messages, A, B, NoneId, 1, 1),
           r \in get_conversation(messages, A, B, NoneId, 0, MaxMsgs + 1) :
            /\ r1.total = Cardinality(Between(messages, A, B))
            /\ r2.total = r1.total /\ r.total = r1.total
            /\ InPersistedOrder(r.messages)
            /\ r.messages = r2.messages \o r1.messages
            /\ Range(r1.messages) \cap Range(r2.messages) = {}
            /\ Range(r1.messages) \cup Range(r2.messages) = Between(messages, A, B)

----------------------------------------------------------------------------
(* Conversation list (Spec)                                                *)

\* the users U has exchanged a stored message with, in either direction
Partners(store, U) ==
    {m.receiver_id : m \in {x \in store : x.sender_id = U}}
        \cup {m.sender_id : m \in {x \in store : x.receiver_id = U}}

\* C23: list_conversations(U) has exactly one entry per partner P with a stored
\* message of the pair {U, P} and total counts the partners; entries come by
\* the time of the newest message exchanged, newest first, and last_message is
\* a message of the pair carrying that time.  A partner is listed from the
\* first message on and no longer once every message of the pair is deleted.
ConversationListExact ==
    \A U \in ChatUsers :
        \A r \in get_user_conversations(messages, U, 0, MaxMsgs + 1) :
            LET c == r.conversations
            IN  /\ r.total = Cardinality(Partners(messages, U))
                /\ Len(c) = r.total
                /\ {c[i].partner : i \in DOMAIN c} = Partners(messages, U)
                /\ \A P \in ChatUsers :
                      (P \in {c[i].partner : i \in DOMAIN c})
                          <=> Between(messages, U, P) # {}
                /\ \A i \in DOMAIN c :
                      /\ c[i].last_message \in Between(messages, U, c[i].partner)
                      /\ c[i].last_message.created_at
                            = MaxCreated(Between(messages, U, c[i].partner))
                /\ \A i, j \in DOMAIN c :
                      i < j => c[i].last_message.created_at
                                  >= c[j].last_message.created_at

\* a user with two partners whose newest messages differ in time, the newer
\* one received and the older one sent
ConversationListWitness ==
    \E U \in ChatUsers : \E m, n \in messages :
        /\ m.receiver_id = U /\ n.sender_id = U
        /\ m.sender_id # n.receiver_id
        /\ m.sender_id # U /\ n.receiver_id # U
        /\ m.created_at > n.created_at

----------------------------------------------------------------------------
(* Frames of resolve_conversation and delete_conversation (Spec)           *)

\* a row with its is_resolved flag left out
SansResolved(m) == [m EXCEPT !.is_resolved = FALSE]

\* the ids of the rows of a page, in the order listed
PageIds(s) == [i \in DOMAIN s |-> s[i].id]

\* what a get_thread may return, as ids and total
ThreadIds(store, A, B, o, skip, limit) ==
    {[ids |-> PageIds(r.messages), total |-> r.total] :
        r \in get_conversation(store, A, B, o, skip, limit)}

\* C24: resolve_conversation(A, B) changes nothing but the is_resolved flag of
\* messages between A and B: no message is removed or added, no other field
\* changes, messages of other pairs keep their flag, and get_thread(A, B)
\* returns the same messages and total as before.
ResolveFrame ==
    [][\A A, B \in ChatUsers :
          ResolveConversation(A, B) =>
             /\ {m.id : m \in messages'} = {m.id : m \in messages}
             /\ Cardinality(messages') = Cardinality(messages)
             /\ \A m \in messages : \A n \in Row(messages', m.id) :
                   /\ SansResolved(n) = SansResolved(m)
                   /\ m \notin Between(messages, A, B) => n = m
             /\ \A o \in {NoneId} \cup OrderIds, pg \in ThreadPages :
                   ThreadIds(messages', A, B, o, pg[1], pg[2])
                       = ThreadIds(messages, A, B, o, pg[1], pg[2])]_vars

\* a resolve that flagged a read message while an unresolved message of
\* another pair is stored
ResolveFrameWitness ==
    /\ last.op = "resolve_conversation"
    /\ last.ret = 1
    /\ \E m, n \in messages :
          /\ m.is_resolved /\ m.is_read
          /\ ~n.is_resolved
          /\ {n.sender_id, n.receiver_id} # {m.sender_id, m.receiver_id}

\* C30: delete_conversation(A, B) removes the messages of the pair {A, B} and
\* no other: every other message stays stored with all its fields unchanged.
DeleteFrame ==
    [][\A A, B \in ChatUsers :
          DeleteConversation(A, B) =>
             messages' = messages \ Between(messages, A, B)]_vars

\* a delete that removed a message and left a read message of another pair
\* that shares a user with the deleted one
DeleteFrameWitness ==
    /\ last.op = "delete_conversation"
    /\ last.ret = 1
    /\ \E n \in messages : n.is_read /\ n.sender_id # n.receiver_id

----------------------------------------------------------------------------
(* Thread read through the API (SpecRead)                                  *)

\* the ids a read of the thread of X and P may list, for the page asked
ThreadPageIds(X, P, o, page, limit) ==
    {PageIds(r.messages) :
        r \in get_conversation(messages, X, P, o, (page - 1) * limit, limit)}

AdminReadsOwnMessage ==
    [][\A admin \in UserIds, R \in UserIds :
          (/\ last.op = "api_send_message" /\ last.err = "ok" /\ last.a = admin
           /\ role[admin] = "admin"
           /\ \E m \in messages : m.id = last.ret /\ m.receiver_id = R
           /\ view'.op = "get_conversation_messages"
           /\ view'.user_id = admin /\ view'.partner_id = R
           /\ ApiGetConversationMessages(admin, R, NoneId, 1, MaxMsgs + 1)) =>
             \E i \in DOMAIN view'.ids : view'.ids[i] = last.ret]_vars

----------------------------------------------------------------------------
(* Entries of the support queue (Spec)                                     *)

\* C26: in each entry of list_support_queue(S) the last message and the unread
\* count are computed over non-resolved messages only: a resolved message is
\* never an entry's last message and never counts as unread.
SupportQueueEntriesUnresolvedOnly ==
    \A S \in ChatUsers :
        \A r \in get_support_conversations(messages, S, 0, MaxMsgs + 1) :
            \A i \in DOMAIN r.conversations :
                LET c == r.conversations[i]
                IN  /\ ~c.last_message.is_resolved
                    /\ c.user # S => c.unread_count =
                          Cardinality({m \in messages :
                                          /\ m.sender_id = c.user
                                          /\ m.receiver_id = S
                                          /\ ~m.is_read
                                          /\ ~m.is_resolved})

----------------------------------------------------------------------------
(* Order status transitions (SpecOrder)                                    *)

\* C27: an update_status by a caller who is not ADMIN takes effect only if the
\* caller owns the order and the new status is listed in STATUS_TRANSITIONS
\* for the status the order has, so such a call never moves an order out of
\* cancelled or returned nor from pending to delivered; a rejected call leaves
\* the status as it is.
NonAdminFollowsTransitions ==
    [][\A c \in CallIds :
          /\ UpdateStatusFlush(c) /\ role[req[c].user_id] # "admin" =>
                LET o == req[c].order_id
                IN  /\ orders[o].user_id = req[c].user_id
                    /\ orders'[o].status # orders[o].status =>
                          orders'[o].status \in STATUS_TRANSITIONS[orders[o].status]
                    /\ orders[o].status \in {"cancelled", "returned"} =>
                          orders'[o].status = orders[o].status
                    /\ ~(orders[o].status = "pending" /\ orders'[o].status = "delivered")
          /\ (last' # last /\ last'.err # "ok") => orders' = orders]_vars

----------------------------------------------------------------------------
(* The two maps of the ConnectionManager (SpecRt)                          *)

\* C28: in every state reached by interleaving connect, disconnect and
\* send_personal_message the two maps agree: a connection c is in
\* active_connections[u] exactly if connection_users[c] = u, a connection is
\* in the set of at most one user, and no user id is mapped to an empty set.
RegistryMapsAgree ==
    LET users == DOMAIN active_connections \cup WsUserIds
                    \cup {connection_users[c] : c \in DOMAIN connection_users}
    IN  /\ \A c \in Conns, u \in users :
              (u \in DOMAIN active_connections /\ c \in active_connections[u])
                  <=> (c \in DOMAIN connection_users /\ connection_users[c] = u)
        /\ \A u, v \in DOMAIN active_connections :
              u # v => active_connections[u] \cap active_connections[v] = {}
        /\ \A u \in DOMAIN active_connections : active_connections[u] # {}

\* while a push is iterating, one socket has been unregistered and another
\* one is registered
RegistryMapsWitness ==
    /\ req.push = "running"
    /\ \E c, d \in Conns :
          /\ ws[c] = "closed" /\ c \notin DOMAIN connection_users
          /\ d \in DOMAIN connection_users
          /\ d \in active_connections[connection_users[d]]

============================================================================
